---- MODULE Spec2Model ----
(***************************************************************************)
(* Model of server.py: the AutoReloadHandler request handler (end_headers, *)
(* do_GET) and the start routine run_server, one action per statement      *)
(* group of run_server and one per request the serve loop handles.         *)
(*                                                                         *)
(* Environment: the outcome of every library call that the claims speak    *)
(* about is chosen nondeterministically (os.path.exists, os.chdir into the *)
(* content root, the TCPServer constructor, webbrowser.open,               *)
(* serve_forever).  os.getcwd() and os.chdir(original_dir) are taken to    *)
(* succeed: the directory that was current at launch still exists when it  *)
(* is restored.  serve_forever never returns normally, because nothing in  *)
(* the program calls shutdown().                                           *)
(***************************************************************************)
EXTENDS Integers, Sequences, FiniteSets, TLC

VARIABLES
    pc,             \* position of run_server
    cwd,            \* the process's working directory
    original_dir,   \* local of run_server (line 33), "" before it is set
    exc,            \* the exception in flight (NoExc when none)
    output,         \* lines printed to standard output
    httpd,          \* TRUE once the TCPServer is constructed (listener bound)
    response,       \* the last response the handler sent
    served,         \* number of requests handled so far
    dirExists,      \* environment: os.path.exists(public_dir)
    portBusy,       \* environment: another listener holds PORT
    platform,       \* environment: the platform's errno for address-in-use
    cwd0,           \* history: working directory when run_server was invoked
    verified,       \* history: the existence check passed
    chdirs,         \* history: successful os.chdir(public_dir) calls
    restores,       \* history: os.chdir(original_dir) calls
    browserOpens,   \* history: webbrowser.open calls
    browserResult,  \* history: outcome of webbrowser.open
    everServing,    \* history: serve_forever was entered
    raised          \* history: the first failure, and the step that raised it

vars == <<pc, cwd, original_dir, exc, output, httpd, response, served,
          dirExists, portBusy, platform, cwd0, verified, chdirs, restores,
          browserOpens, browserResult, everServing, raised>>

(* ------------------------------ bounds -------------------------------- *)

MaxRequests == 2

(* ------------------------- program constants -------------------------- *)

PORT == 3000

ADDR_IN_USE_ERRNO == 48

public_dir == "/app/dry-field-064a/public"

(* ----------------------------- environment ---------------------------- *)

\* Directories the process may be launched from (the content root included).
Dirs == {"/home/user", "/app", public_dir}

\* errno.EADDRINUSE on macOS/BSD, Linux and Windows.
AddrInUseCodes == {48, 98, 10048}

\* Other errno values an OSError may carry (EACCES, EMFILE).
OtherErrnos == {13, 24}

\* Request paths sent by clients.
Paths == {"/", "/index.html", "/missing.txt", "/?v=1", "/css"}

(* ----------------------------- exceptions ----------------------------- *)

NoExc == [kind |-> "None", code |-> 0]

\* OSError carries errno in code; SystemExit carries the exit status.
\* "Exception" stands for any Exception subclass that is not an OSError.
OSError(errno) == [kind |-> "OSError", code |-> errno]

OtherException == [kind |-> "Exception", code |-> 0]

KeyboardInterrupt == [kind |-> "KeyboardInterrupt", code |-> 0]

SystemExit(status) == [kind |-> "SystemExit", code |-> status]

\* except OSError as e  (line 46)
InnerCatches(e) == e.kind = "OSError"

OuterCatchesOnlyOSError(e) == e.kind = "OSError"

OuterCatchesBaseException(e) == e.kind # "None"

\* except Exception as e  (line 54): OSError is a subclass of Exception,
\* SystemExit and KeyboardInterrupt are not.
OuterCatches(e) == e.kind \in {"OSError", "Exception"}

(* ------------------------------- output ------------------------------- *)

DirNotFoundText == "Error: Directory not found: "

ServingFromText == "Serving from: "

ServingAtText == "Serving at http://localhost:"

PortInUseText == "Error: Port is already in use. Please try a different port or kill the existing process."

GenericErrorText == "Error: "

Line(text, path, port, e) == [text |-> text, path |-> path, port |-> port, err |-> e]

\* The line the inner handler prints for e  (lines 47-50).
InnerMessage(e) ==
    IF e.code = ADDR_IN_USE_ERRNO
    THEN Line(PortInUseText, "", PORT, NoExc)
    ELSE Line(GenericErrorText, "", 0, e)

\* The line the outer handler prints for e  (line 55).
OuterMessage(e) == Line(GenericErrorText, "", 0, e)

(* --------------------------- request handler -------------------------- *)

\* The handler's header state: the header buffer and what was flushed.
NewHandler == [buffer |-> <<>>, wire |-> <<>>, ended |-> FALSE]

send_header(h, keyword, value) ==
    [h EXCEPT !.buffer = Append(@, <<keyword, value>>)]

\* super().end_headers(): the buffered header block is flushed to the client.
BaseEndHeaders(h) ==
    [buffer |-> <<>>, wire |-> h.wire \o h.buffer, ended |-> TRUE]

end_headers_FlushFirst(h) ==
    send_header(
        send_header(
            send_header(BaseEndHeaders(h),
                        "Cache-Control", "no-store, no-cache, must-revalidate"),
            "Pragma", "no-cache"),
        "Expires", "0")

\* AutoReloadHandler.end_headers  (lines 8-12)
end_headers(h) ==
    BaseEndHeaders(
        send_header(
            send_header(
                send_header(h, "Cache-Control", "no-store, no-cache, must-revalidate"),
                "Pragma", "no-cache"),
            "Expires", "0"))

\* The inherited send_response: status line plus the Server and Date headers.
send_response(h) ==
    send_header(send_header(h, "Server", "SimpleHTTP"), "Date", "now")

\* The headers the inherited behaviour adds for a response of this status:
\* a file or listing (200), a redirect to the directory (301), not modified
\* (304), and the error responses, which go through send_error.
StatusHeaders(h, status) ==
    CASE status = 200 -> send_header(send_header(h, "Content-type", "text/html"),
                                     "Content-Length", "n")
      [] status = 301 -> send_header(send_header(h, "Location", "dir/"),
                                     "Content-Length", "0")
      [] status = 304 -> h
      [] OTHER        -> send_header(send_header(h, "Connection", "close"),
                                     "Content-Type", "text/html;charset=utf-8")

\* What the inherited handler sends: every response path of the base class
\* finishes its header block by calling self.end_headers().
SendResponse(status) ==
    end_headers(StatusHeaders(send_response(NewHandler), status))

do_GET_NoRewrite(path) == path

\* AutoReloadHandler.do_GET (lines 15-16): the path handed to the default
\* file-serving behaviour.
do_GET(path) == IF path = "/" THEN "/index.html" ELSE path

NoResponse ==
    [method |-> "", request |-> "", path |-> "", status |-> 0, headers |-> <<>>,
     ended |-> FALSE]

GetStatuses == {200, 301, 304, 404}

ErrorStatuses == {400, 500, 501}

(* -------------------------------- Init -------------------------------- *)

NotRaised == [at |-> "none", exc |-> NoExc]

Init ==
    /\ pc = "check_dir"
    /\ cwd \in Dirs
    /\ cwd0 = cwd
    /\ original_dir = ""
    /\ exc = NoExc
    /\ output = <<>>
    /\ httpd = FALSE
    /\ response = NoResponse
    /\ served = 0
    /\ dirExists \in BOOLEAN
    /\ portBusy \in BOOLEAN
    /\ platform \in AddrInUseCodes
    /\ verified = FALSE
    /\ chdirs = 0
    /\ restores = 0
    /\ browserOpens = 0
    /\ browserResult = "none"
    /\ everServing = FALSE
    /\ raised = NotRaised

env == <<dirExists, portBusy, platform, cwd0>>

(* ----------------------------- run_server ----------------------------- *)

DirMissingFallsThrough ==
    /\ pc = "check_dir"
    /\ ~dirExists
    /\ output' = Append(output, Line(DirNotFoundText, public_dir, 0, NoExc))
    /\ pc' = "store_cwd"
    /\ UNCHANGED <<cwd, original_dir, exc, httpd, response, served, env, verified,
                   chdirs, restores, browserOpens, browserResult, everServing,
                   raised>>

\* lines 28-30: the content root is missing; sys.exit(1) is raised outside
\* the try statement, so neither handler nor the finally clause runs.
DirMissing ==
    /\ pc = "check_dir"
    /\ ~dirExists
    /\ output' = Append(output, Line(DirNotFoundText, public_dir, 0, NoExc))
    /\ exc' = SystemExit(1)
    /\ raised' = [at |-> "check_dir", exc |-> NoExc]
    /\ pc' = "left"
    /\ UNCHANGED <<cwd, original_dir, httpd, response, served, env, verified,
                   chdirs, restores, browserOpens, browserResult, everServing>>

\* line 28, condition false
DirVerified ==
    /\ pc = "check_dir"
    /\ dirExists
    /\ verified' = TRUE
    /\ pc' = "store_cwd"
    /\ UNCHANGED <<cwd, original_dir, exc, output, httpd, response, served, env,
                   chdirs, restores, browserOpens, browserResult, everServing,
                   raised>>

\* line 33
StoreOriginal ==
    /\ pc = "store_cwd"
    /\ original_dir' = cwd
    /\ pc' = "chdir"
    /\ UNCHANGED <<cwd, exc, output, httpd, response, served, env, verified,
                   chdirs, restores, browserOpens, browserResult, everServing,
                   raised>>

ChangeDirSkipped ==
    /\ pc = "chdir"
    /\ output' = Append(output, Line(ServingFromText, public_dir, 0, NoExc))
    /\ pc' = "bind"
    /\ UNCHANGED <<cwd, chdirs, original_dir, exc, httpd, response, served, env,
                   verified, restores, browserOpens, browserResult, everServing,
                   raised>>

\* lines 37-38
ChangeDir ==
    /\ pc = "chdir"
    /\ cwd' = public_dir
    /\ chdirs' = chdirs + 1
    /\ output' = Append(output, Line(ServingFromText, public_dir, 0, NoExc))
    /\ pc' = "bind"
    /\ UNCHANGED <<original_dir, exc, httpd, response, served, env, verified,
                   restores, browserOpens, browserResult, everServing, raised>>

\* line 37 raises (not a directory, no permission): the statement is in the
\* outer try only, so the outer handler is the first to see the error.
ChangeDirFails ==
    /\ pc = "chdir"
    /\ \E errno \in OtherErrnos :
          /\ exc' = OSError(errno)
          /\ raised' = [at |-> "chdir", exc |-> OSError(errno)]
    /\ pc' = "outer_except"
    /\ UNCHANGED <<cwd, original_dir, output, httpd, response, served, env,
                   verified, chdirs, restores, browserOpens, browserResult,
                   everServing>>

\* lines 42-43
Bind ==
    /\ pc = "bind"
    /\ ~portBusy
    /\ httpd' = TRUE
    /\ output' = Append(output, Line(ServingAtText, "", PORT, NoExc))
    /\ pc' = "open_browser"
    /\ UNCHANGED <<cwd, original_dir, exc, response, served, env, verified,
                   chdirs, restores, browserOpens, browserResult, everServing,
                   raised>>

\* line 42 raises: address in use when another listener holds the port (the
\* errno is the platform's), some other OSError otherwise.
BindFails ==
    /\ pc = "bind"
    /\ \E e \in (IF portBusy THEN {OSError(platform)}
                             ELSE {OSError(errno) : errno \in OtherErrnos}) :
          /\ exc' = e
          /\ raised' = [at |-> "bind", exc |-> e]
    /\ pc' = "inner_except"
    /\ UNCHANGED <<cwd, original_dir, output, httpd, response, served, env,
                   verified, chdirs, restores, browserOpens, browserResult,
                   everServing>>

\* line 44: webbrowser.open returns True or False; the result is discarded.
OpenBrowser ==
    /\ pc = "open_browser"
    /\ browserOpens' = browserOpens + 1
    /\ browserResult' \in {"opened", "not_opened"}
    /\ pc' = "serve_forever"
    /\ UNCHANGED <<cwd, original_dir, exc, output, httpd, response, served, env,
                   verified, chdirs, restores, everServing, raised>>

\* line 44 raises (an OSError from launching the browser, or webbrowser.Error).
OpenBrowserRaises ==
    /\ pc = "open_browser"
    /\ browserOpens' = browserOpens + 1
    /\ browserResult' = "raised"
    /\ \E e \in {OSError(errno) : errno \in OtherErrnos} \cup {OtherException} :
          /\ exc' = e
          /\ raised' = [at |-> "browser", exc |-> e]
    /\ pc' = "inner_except"
    /\ UNCHANGED <<cwd, original_dir, output, httpd, response, served, env,
                   verified, chdirs, restores, everServing>>

\* line 45: the serve loop is entered.
ServeForever ==
    /\ pc = "serve_forever"
    /\ everServing' = TRUE
    /\ pc' = "serving"
    /\ UNCHANGED <<cwd, original_dir, exc, output, httpd, response, served, env,
                   verified, chdirs, restores, browserOpens, browserResult,
                   raised>>

\* The serve loop handles a GET request: do_GET (lines 14-17), then the
\* inherited behaviour answers with one of its statuses.
HandleGET ==
    /\ pc = "serving"
    /\ served < MaxRequests
    /\ \E p \in Paths, status \in GetStatuses :
          LET h == SendResponse(status) IN
          response' = [method |-> "GET", request |-> p, path |-> do_GET(p),
                       status |-> status, headers |-> h.wire, ended |-> h.ended]
    /\ served' = served + 1
    /\ UNCHANGED <<pc, cwd, original_dir, exc, output, httpd, env, verified,
                   chdirs, restores, browserOpens, browserResult, everServing,
                   raised>>

\* The serve loop answers a request it cannot serve (malformed request line,
\* unsupported method, internal error) through the inherited send_error,
\* which ends its header block with self.end_headers() too.
HandleError ==
    /\ pc = "serving"
    /\ served < MaxRequests
    /\ \E p \in Paths, status \in ErrorStatuses :
          LET h == SendResponse(status) IN
          response' = [method |-> "POST", request |-> p, path |-> p,
                       status |-> status, headers |-> h.wire, ended |-> h.ended]
    /\ served' = served + 1
    /\ UNCHANGED <<pc, cwd, original_dir, exc, output, httpd, env, verified,
                   chdirs, restores, browserOpens, browserResult, everServing,
                   raised>>

\* line 45 raises: an error in the serve loop, or the process is interrupted
\* from outside (KeyboardInterrupt).
ServeRaises ==
    /\ pc = "serving"
    /\ \E e \in {OSError(errno) : errno \in OtherErrnos}
                \cup {OtherException, KeyboardInterrupt} :
          /\ exc' = e
          /\ raised' = [at |-> "serve", exc |-> e]
    /\ pc' = "inner_except"
    /\ UNCHANGED <<cwd, original_dir, output, httpd, response, served, env,
                   verified, chdirs, restores, browserOpens, browserResult,
                   everServing>>

InnerHandlerNoRestore ==
    /\ pc = "inner_except"
    /\ InnerCatches(exc)
    /\ output' = Append(output, InnerMessage(exc))
    /\ exc' = SystemExit(1)
    /\ pc' = "outer_except"
    /\ UNCHANGED <<cwd, restores, original_dir, httpd, response, served, env,
                   verified, chdirs, browserOpens, browserResult, everServing,
                   raised>>

\* lines 46-52: the inner handler; sys.exit(1) raises SystemExit, which goes
\* on to the outer try statement.
InnerHandler ==
    /\ pc = "inner_except"
    /\ InnerCatches(exc)
    /\ output' = Append(output, InnerMessage(exc))
    /\ cwd' = original_dir
    /\ restores' = restores + 1
    /\ exc' = SystemExit(1)
    /\ pc' = "outer_except"
    /\ UNCHANGED <<original_dir, httpd, response, served, env, verified, chdirs,
                   browserOpens, browserResult, everServing, raised>>

\* line 46 does not match: the exception goes on to the outer try statement.
InnerPass ==
    /\ pc = "inner_except"
    /\ ~InnerCatches(exc)
    /\ pc' = "outer_except"
    /\ UNCHANGED <<cwd, original_dir, exc, output, httpd, response, served, env,
                   verified, chdirs, restores, browserOpens, browserResult,
                   everServing, raised>>

\* lines 54-57: the outer handler.
OuterHandler ==
    /\ pc = "outer_except"
    /\ OuterCatches(exc)
    /\ output' = Append(output, OuterMessage(exc))
    /\ cwd' = original_dir
    /\ restores' = restores + 1
    /\ exc' = SystemExit(1)
    /\ pc' = "finally"
    /\ UNCHANGED <<original_dir, httpd, response, served, env, verified, chdirs,
                   browserOpens, browserResult, everServing, raised>>

\* line 54 does not match (SystemExit, KeyboardInterrupt).
OuterPass ==
    /\ pc = "outer_except"
    /\ ~OuterCatches(exc)
    /\ pc' = "finally"
    /\ UNCHANGED <<cwd, original_dir, exc, output, httpd, response, served, env,
                   verified, chdirs, restores, browserOpens, browserResult,
                   everServing, raised>>

FinallyNoRestore ==
    /\ pc = "finally"
    /\ pc' = "left"
    /\ UNCHANGED <<cwd, restores, original_dir, exc, output, httpd, response,
                   served, env, verified, chdirs, browserOpens, browserResult,
                   everServing, raised>>

\* lines 58-60: the finally clause; the exception in flight then leaves
\* run_server.
Finally ==
    /\ pc = "finally"
    /\ cwd' = original_dir
    /\ restores' = restores + 1
    /\ pc' = "left"
    /\ UNCHANGED <<original_dir, exc, output, httpd, response, served, env,
                   verified, chdirs, browserOpens, browserResult, everServing,
                   raised>>

Next ==
    \/ DirMissing
    \/ DirVerified
    \/ StoreOriginal
    \/ ChangeDir
    \/ ChangeDirFails
    \/ Bind
    \/ BindFails
    \/ OpenBrowser
    \/ OpenBrowserRaises
    \/ ServeForever
    \/ HandleGET
    \/ HandleError
    \/ ServeRaises
    \/ InnerHandler
    \/ InnerPass
    \/ OuterHandler
    \/ OuterPass
    \/ Finally

Spec == Init /\ [][Next]_vars

\* Once an exception is in flight the interpreter unwinds without waiting on
\* anything: the handlers and the finally clause run to the end.
Unwind == InnerHandler \/ InnerPass \/ OuterHandler \/ OuterPass \/ Finally

FairSpec == Spec /\ WF_vars(Unwind)

(* ------------------------------ properties ----------------------------- *)

IsDiagnostic(l) == l.text \in {DirNotFoundText, PortInUseText, GenericErrorText}

\* Number of error lines printed so far.
DiagCount == Cardinality({i \in 1..Len(output) : IsDiagnostic(output[i])})

Printed(l) == \E i \in 1..Len(output) : output[i] = l

\* The run met a failure (missing content root, or an error was raised), as
\* opposed to being interrupted from outside.
Failed == raised.at # "none" /\ raised.exc.kind # "KeyboardInterrupt"

\* The bind failed because another listener holds the port.
BindAddrInUse == raised.at = "bind" /\ portBusy /\ raised.exc = OSError(platform)

NoCacheHeaders ==
    {<<"Cache-Control", "no-store, no-cache, must-revalidate">>,
     <<"Pragma", "no-cache">>,
     <<"Expires", "0">>}

HeaderSet(r) == {r.headers[i] : i \in 1..Len(r.headers)}

\* C1: whatever exit path run_server takes, the working directory when the
\* routine is left equals the working directory it was invoked in.
C1_CwdRestoredOnEveryExit == pc = "left" => cwd = cwd0

C1_Witness ==
    /\ pc = "left"
    /\ chdirs > 0
    /\ everServing
    /\ cwd0 # public_dir
    /\ cwd = cwd0

\* C2: when the content root does not exist, run_server prints one error
\* line that contains the missing path and exits with status 1; in that run
\* the listener is never bound, the working directory is never changed and
\* the browser is never opened.
C2_MissingDirExits ==
    ~dirExists =>
        /\ ~httpd
        /\ chdirs = 0
        /\ cwd = cwd0
        /\ browserOpens = 0
        /\ pc \in {"check_dir", "left"}
        /\ pc = "left" =>
              /\ output = <<Line(DirNotFoundText, public_dir, 0, NoExc)>>
              /\ exc = SystemExit(1)

C2_Witness ==
    /\ ~dirExists
    /\ pc = "left"
    /\ Len(output) = 1
    /\ output[1].path = public_dir

\* C3 (as claimed): when the bind fails because the port is already bound by
\* another listener, whatever errno the platform uses for address-in-use,
\* run_server prints the dedicated port-in-use message, exits with status 1
\* and the working directory is restored.
C3_PortInUseDedicatedMessage ==
    (pc = "left" /\ BindAddrInUse) =>
        /\ Printed(Line(PortInUseText, "", PORT, NoExc))
        /\ exc = SystemExit(1)
        /\ cwd = cwd0

\* C4: every response the handler sends, whatever its status, carries the
\* three no-cache headers with exactly these values, and its header block is
\* never ended without them.
C4_NoCacheHeadersOnEveryResponse ==
    response.status # 0 =>
        /\ response.ended
        /\ NoCacheHeaders \subseteq HeaderSet(response)
        /\ \A hd \in HeaderSet(response) :
              hd[1] \in {"Cache-Control", "Pragma", "Expires"} => hd \in NoCacheHeaders

C4_Witness ==
    /\ response.status = 404
    /\ NoCacheHeaders \subseteq HeaderSet(response)

\* C5: a GET request whose path is exactly "/" is handed to the default
\* file-serving behaviour as "/index.html"; a GET request with any other
\* path is handed on unchanged.
C5_RootServesIndex ==
    response.method = "GET" =>
        /\ response.request = "/" => response.path = "/index.html"
        /\ response.request # "/" => response.path = response.request

C5_Witness ==
    /\ response.method = "GET"
    /\ response.request = "/"
    /\ response.path = "/index.html"
    /\ response.status = 200

\* C6 (as claimed): in every run that changed the working directory, the
\* original working directory is restored exactly once by the time
\* run_server is left.
C6_RestoredExactlyOnce == (pc = "left" /\ chdirs > 0) => restores = 1

\* C6 (amended): in every run that changed the working directory, the
\* original working directory is restored at least once by the time
\* run_server is left: once (by the finally clause) when the run is
\* interrupted from outside, twice (by a handler, then again by the finally
\* clause) on every failure path.
C6_RestoredOnceOrTwice ==
    (pc = "left" /\ chdirs > 0) =>
        /\ cwd = original_dir
        /\ raised.exc.kind = "KeyboardInterrupt" => restores = 1
        /\ raised.exc.kind # "KeyboardInterrupt" => restores = 2

C6_Witness ==
    /\ pc = "left"
    /\ chdirs > 0
    /\ raised.at = "bind"
    /\ restores = 2

\* C7 (as claimed): if opening the browser fails (it returns failure or
\* raises) after the listener was bound, startup is not aborted: run_server
\* still enters the serve loop.
C7_BrowserFailureDoesNotAbort ==
    (pc = "left" /\ httpd /\ browserResult \in {"not_opened", "raised"}) => everServing

Rank(p) ==
    CASE p = "check_dir"     -> 0
      [] p = "store_cwd"     -> 1
      [] p = "chdir"         -> 2
      [] p = "bind"          -> 3
      [] p = "open_browser"  -> 4
      [] p = "serve_forever" -> 5
      [] p = "serving"       -> 6
      [] OTHER               -> 7

\* C8: the steps of run_server occur only in the order INIT, DIR_VERIFIED,
\* DIR_CHANGED, listener bound, browser opened, SERVING: the working
\* directory is changed only after the content root was verified, the
\* listener is bound only while the working directory is the content root,
\* the browser is opened at most once, after the bind and before the serve
\* loop, and SERVING is left only by an error or an interruption.  Every
\* failure leads to the exit, which has printed a diagnostic, has the
\* original working directory and exits with a non-zero status.
C8_StartupOrder ==
    /\ [][Rank(pc') >= Rank(pc)]_vars
    /\ [](chdirs > 0 => verified)
    /\ [][(httpd' /\ ~httpd) => (cwd = public_dir /\ chdirs = 1)]_vars
    /\ [](browserOpens <= 1)
    /\ [][browserOpens' # browserOpens => (httpd /\ ~everServing /\ ~everServing')]_vars
    /\ [][(pc = "serving" /\ pc' # "serving")
             => exc'.kind \in {"OSError", "Exception", "KeyboardInterrupt"}]_vars
    /\ []((pc = "left" /\ Failed) =>
             (DiagCount >= 1 /\ cwd = cwd0 /\ exc.kind = "SystemExit" /\ exc.code # 0))
    /\ (Failed ~> pc = "left")

C8_Witness ==
    /\ pc = "left"
    /\ Failed
    /\ raised.at = "serve"
    /\ browserOpens = 1
    /\ served > 0

\* An error other than address-in-use, raised after original_dir was set.
OtherErrorRaised ==
    /\ raised.at \in {"chdir", "bind", "browser", "serve"}
    /\ raised.exc.kind \in {"OSError", "Exception"}
    /\ ~BindAddrInUse

\* C9: an error other than address-in-use that is raised after the original
\* working directory was recorded (by the chdir, the bind or the serve
\* attempt) is caught in run_server, reported with one generic error line,
\* and makes the process exit with status 1 with the original working
\* directory restored.
C9_OtherErrorsReportedGenerically ==
    /\ (OtherErrorRaised /\ pc = "left") =>
          /\ output[Len(output)] = Line(GenericErrorText, "", 0, raised.exc)
          /\ exc = SystemExit(1)
          /\ restores >= 1
          /\ cwd = cwd0
    /\ (OtherErrorRaised /\ exc = SystemExit(1)) => cwd = cwd0

C9_Witness ==
    /\ pc = "left"
    /\ OtherErrorRaised
    /\ raised.exc = OtherException
    /\ exc = SystemExit(1)

\* C10: every failed run prints exactly one error line and exits with status
\* 1: the exit raised by the inner handler is not caught by the outer one.
C10_OneDiagnosticPerFailure ==
    /\ DiagCount <= 1
    /\ (pc = "left" /\ Failed) => (DiagCount = 1 /\ exc = SystemExit(1))
    /\ (pc = "left" /\ exc.kind = "SystemExit") => (DiagCount = 1 /\ exc.code = 1)

C10_Witness ==
    /\ pc = "left"
    /\ raised.at = "bind"
    /\ raised.exc.kind = "OSError"
    /\ restores = 2
    /\ DiagCount = 1

====
